---------------------------- MODULE Spec2Model ----------------------------
(***************************************************************************)
(* Model of gcode-transform.py: the rewrite of G2/G3 arcs given by a       *)
(* radius word (R) into arcs given by a center offset (I J).               *)
(*                                                                         *)
(* Representation of the program's values                                  *)
(*                                                                         *)
(*  - A line is a sequence of words.  A word is a record whose field t     *)
(*    names its kind: "ws" (leading/trailing white space, removed by       *)
(*    str.strip), "G" (the letter G followed by the digits in `code`),     *)
(*    "X","Y","Z","R" (the letter followed by number text), "txt" (text in *)
(*    which none of the regular expressions matches, such as ";" or "M3")  *)
(*    and "IJ" (the offset word written by push_line).                     *)
(*  - Number text is a sign and a magnitude, [neg, mag]; float() maps it   *)
(*    to an integer.  Coordinates and radii are whole numbers.             *)
(*  - The reals computed while an arc is reconstructed are kept exactly:   *)
(*    with D = distance^2 and K = 4*radius^2 - D, every coordinate the     *)
(*    code computes has the form (a + b*sqrt(K/D))/2 for integers a, b,    *)
(*    and is the record [a, b, K, D] ("surd").  Signs, comparisons and     *)
(*    the rounding to four decimals are computed exactly on that form.     *)
(*  - math.sqrt(n) is represented by its radicand n.                       *)
(*  - An angle is atan2 of a direction plus a whole number of turns.       *)
(***************************************************************************)
EXTENDS Integers, Naturals, Sequences, FiniteSets, TLC

(***************************************************************************)
(* Bounds                                                                  *)
(***************************************************************************)
MaxLines == 3

\* coordinates and radii of the single-arc specification
Coord == 2

MaxRadius == 4

----------------------------------------------------------------------------
(***************************************************************************)
(* Exact arithmetic                                                        *)
(***************************************************************************)
Sq(n) == n * n

Sgn(n) == IF n > 0 THEN 1 ELSE IF n < 0 THEN -1 ELSE 0

\* the real (a + b*sqrt(K/D))/2, D > 0, K >= 0
Surd(a, b, K, D) == [a |-> a, b |-> b, K |-> K, D |-> D]

\* a whole number n as a surd of the field (K, D)
Whole(n, K, D) == Surd(2 * n, 0, K, D)

\* sign of X + Y*sqrt(K/D)
SgnRoot(X, Y, K, D) ==
    IF Y = 0 \/ K = 0 THEN Sgn(X)
    ELSE IF X = 0 THEN Sgn(Y)
    ELSE IF Sgn(X) = Sgn(Y) THEN Sgn(X)
    ELSE IF X > 0 THEN Sgn(Sq(X) * D - Sq(Y) * K)
    ELSE Sgn(Sq(Y) * K - Sq(X) * D)

SgnSurd(p) == SgnRoot(p.a, p.b, p.K, p.D)

\* p - q for two surds of the same field
SurdSub(p, q) == Surd(p.a - q.a, p.b - q.b, p.K, p.D)

\* sign of p*q - r*t for four surds of the same field:
\* 4*D*(p*q - r*t) = X + Y*sqrt(K/D)
SgnProdDiff(p, q, r, t) ==
    SgnRoot((p.a * q.a - r.a * t.a) * p.D + (p.b * q.b - r.b * t.b) * p.K,
            (p.a * q.b + p.b * q.a - r.a * t.b - r.b * t.a) * p.D,
            p.K, p.D)

\* sign of p*q + r*t
SgnProdSum(p, q, r, t) ==
    SgnRoot((p.a * q.a + r.a * t.a) * p.D + (p.b * q.b + r.b * t.b) * p.K,
            (p.a * q.b + p.b * q.a + r.a * t.b + r.b * t.a) * p.D,
            p.K, p.D)

----------------------------------------------------------------------------
(***************************************************************************)
(* class Vector2D                                                          *)
(***************************************************************************)
\* `below`: v is an exact zero that the floating-point evaluation left just
\* below zero
Vector2D(u, v) == [u |-> u, v |-> v, below |-> FALSE]

Below(w) == [w EXCEPT !.below = TRUE]

\* w lies on the branch cut of the bearing (the positive x axis) and its v
\* is the difference of rounded terms
OnBranchCut(w) ==
    SgnSurd(w.v) = 0 /\ SgnSurd(w.u) > 0 /\ w.v.b # 0 /\ w.v.K # 0

IsZeroVector(w) == SgnSurd(w.u) = 0 /\ SgnSurd(w.v) = 0

\* The arguments of math.atan2 as a direction; math.atan2(0, 0) is 0, the
\* bearing of (1, 0)
Dir(w) == IF IsZeroVector(w)
          THEN Vector2D(Whole(1, w.u.K, w.u.D), Whole(0, w.u.K, w.u.D))
          ELSE w

Cross(v, w) == SgnProdDiff(v.u, w.v, v.v, w.u)

Dot(v, w) == SgnProdSum(v.u, w.u, v.v, w.v)

\* math.atan2(w.v, w.u), plus 2*pi when negative, lies in [0, pi) (half 0)
\* or in [pi, 2*pi) (half 1)
Half(w) ==
    IF w.below THEN 1
    ELSE IF SgnSurd(w.v) > 0 \/ (SgnSurd(w.v) = 0 /\ SgnSurd(w.u) >= 0) THEN 0
    ELSE 1

\* bearing of w < bearing of v, both mapped to [0, 2*pi)
BearingLess(w, v) ==
    \/ Half(w) < Half(v)
    \/ Half(w) = Half(v) /\ Cross(w, v) > 0

\* The angle in (-pi, pi] of sine sign c and cosine sign d is negative
\* (sector 0), zero (sector 1), in (0, pi) (sector 2) or pi (sector 3).
SectorOf(c, d) ==
    IF c < 0 THEN 0 ELSE IF c > 0 THEN 2 ELSE IF d > 0 THEN 1 ELSE 3

\* the sector of the angle from direction v to direction w
Sector(v, w) == SectorOf(Cross(v, w), Dot(v, w))

\* An angle: (angle from `from` to `to` in (-pi, pi]) + 2*pi*turn
Angle(from, to, turn) == [from |-> from, to |-> to, turn |-> turn]

\* a2 - a for the bearings a, a2 in [0, 2*pi) of two directions: a value in
\* (-2*pi, 2*pi)
BearingDifference(a, a2) ==
    IF BearingLess(a2, a)
    THEN Angle(a, a2, IF Sector(a, a2) >= 2 THEN -1 ELSE 0)
    ELSE Angle(a, a2, IF Sector(a, a2) = 0 THEN 1 ELSE 0)

angle_to_vector(self, other) == BearingDifference(Dir(self), Dir(other))

\* alpha > math.pi
GreaterThanPi(alpha) == alpha.turn >= 1

\* alpha - 2 * math.pi
MinusTwoPi(alpha) == Angle(alpha.from, alpha.to, alpha.turn - 1)

\* order of two angles of sectors sa, sb measured from the same vector
SectorLess(sa, sb, alpha, beta) ==
    \/ sa < sb
    \/ sa = sb /\ sa \in {0, 2} /\ Cross(alpha.to, beta.to) > 0

\* alpha < beta, for two angles measured from the same vector
AngleLess(alpha, beta) ==
    \/ alpha.turn < beta.turn
    \/ /\ alpha.turn = beta.turn
       /\ SectorLess(Sector(alpha.from, alpha.to), Sector(beta.from, beta.to),
                     alpha, beta)

----------------------------------------------------------------------------
(***************************************************************************)
(* class Point2D                                                           *)
(***************************************************************************)
Point2D(x, y) == [x |-> x, y |-> y]

\* math.sqrt(x*x + y*y) of two points with whole coordinates: the radicand
distance_to_point(self, other) == Sq(self.x - other.x) + Sq(self.y - other.y)

\* other - self, for points whose coordinates are surds
vector_to_point(self, other) ==
    Vector2D(SurdSub(other.x, self.x), SurdSub(other.y, self.y))

\* a point with whole coordinates in the field (K, D)
WholePoint(p, K, D) == Point2D(Whole(p.x, K, D), Whole(p.y, K, D))

----------------------------------------------------------------------------
(***************************************************************************)
(* class Point3D                                                           *)
(***************************************************************************)
Point3D(x, y, z) == [x |-> x, y |-> y, z |-> z]

Origin == Point3D(0, 0, 0)

point2d(self) == Point2D(self.x, self.y)

\* float(value) of number text
Float(num) == IF num.neg THEN -num.mag ELSE num.mag

\* update_axis as a full replacement of the point
update_axis_replaces(self, axis, value) ==
    IF axis = "X" THEN [x |-> value, y |-> 0, z |-> 0]
    ELSE IF axis = "Y" THEN [x |-> 0, y |-> value, z |-> 0]
    ELSE IF axis = "Z" THEN [x |-> 0, y |-> 0, z |-> value]
    ELSE self

\* lines 78-84
update_axis(self, axis, value) ==
    IF axis = "X" THEN [self EXCEPT !.x = value]
    ELSE IF axis = "Y" THEN [self EXCEPT !.y = value]
    ELSE IF axis = "Z" THEN [self EXCEPT !.z = value]
    ELSE self

RECURSIVE update_from_axes(_, _)
update_from_axes(self, axes) ==
    IF axes = <<>> THEN self
    ELSE update_from_axes(update_axis(self, Head(axes).t, Float(Head(axes).num)),
                          Tail(axes))

----------------------------------------------------------------------------
(***************************************************************************)
(* round(x, 4) of a surd x, as a whole number of ten-thousandths           *)
(***************************************************************************)
\* the largest p with p*p*D <= N, from q, the largest with q*q*D <= N/4
RootUp(q, N, D) == IF Sq(2 * q + 1) * D <= N THEN 2 * q + 1 ELSE 2 * q

\* the largest p with p*p*D <= N
RECURSIVE FloorRoot(_, _)
FloorRoot(N, D) ==
    IF N < D THEN 0 ELSE RootUp(FloorRoot(N \div 4, D), N, D)

\* the next decimal digit of the root after p, rem = 100 * (N - p*p*D)
Digit(p, rem, D) ==
    CHOOSE x \in 0..9 :
        /\ (20 * p * x + Sq(x)) * D <= rem
        /\ x = 9 \/ (20 * p * (x + 1) + Sq(x + 1)) * D > rem

RootStep(p, rem, D, x) ==
    [p |-> 10 * p + x, rem |-> rem - (20 * p * x + Sq(x)) * D]

\* `steps` more decimal digits of the root: from s.p = floor(sqrt(N/D)) and
\* s.rem = N - p*p*D to floor(10^steps * sqrt(N/D)) and its remainder
RECURSIVE RootDigits(_, _, _)
RootDigits(s, D, steps) ==
    IF steps = 0 THEN s
    ELSE RootDigits(RootStep(s.p, s.rem * 100, D, Digit(s.p, s.rem * 100, D)),
                    D, steps - 1)

\* round half away from zero of T/2
RoundHalf(T) == IF T >= 0 THEN (T + 1) \div 2 ELSE -((1 - T) \div 2)

\* 20000*x = 10000*a + sign(b) * 10000*|b|*sqrt(K/D); r.p is the floor of
\* the root part and r.rem is 0 when the root part is whole
RoundFrom(x, r) ==
    IF r.rem = 0
    THEN RoundHalf(10000 * x.a + Sgn(x.b) * r.p)
    ELSE (10000 * x.a + (IF x.b > 0 THEN r.p ELSE -r.p - 1) + 1) \div 2

RootStart(N, D, p0) == [p |-> p0, rem |-> N - Sq(p0) * D]

Round4(x) ==
    RoundFrom(x, RootDigits(RootStart(Sq(x.b) * x.K, x.D,
                                      FloorRoot(Sq(x.b) * x.K, x.D)),
                            x.D, 4))

----------------------------------------------------------------------------
(***************************************************************************)
(* Lines and the regular expressions of push_line                          *)
(***************************************************************************)
Num(neg, mag) == [neg |-> neg, mag |-> mag]

Word(t, n) == [t |-> t, num |-> IF n < 0 THEN Num(TRUE, -n) ELSE Num(FALSE, n)]

GWord(code) == [t |-> "G", code |-> code]

Ws == [t |-> "ws"]

Txt(s) == [t |-> "txt", s |-> s]

\* str.strip
RECURSIVE lstrip(_)
lstrip(line) ==
    IF line # <<>> /\ Head(line).t = "ws" THEN lstrip(Tail(line)) ELSE line

RECURSIVE rstrip(_)
rstrip(line) ==
    IF line # <<>> /\ line[Len(line)].t = "ws"
    THEN rstrip(SubSeq(line, 1, Len(line) - 1))
    ELSE line

strip(line) == rstrip(lstrip(line))

\* G0*[d] as a whole word, d in `last`
CodeMatches(w, last) ==
    /\ w.t = "G"
    /\ Len(w.code) >= 1
    /\ w.code[Len(w.code)] \in last
    /\ \A i \in 1..(Len(w.code) - 1) : w.code[i] = 0

\* re.match(r'\bG0*[01]\b\s*', line)
MatchLinear(line) == line # <<>> /\ CodeMatches(line[1], {0, 1})

\* re.match(r'\bG0*[23]\b\s*', line)
MatchArc(line) == line # <<>> /\ CodeMatches(line[1], {2, 3})

IsAxisWord(w) == w.t \in {"X", "Y", "Z"}

IsRadiusWord(w) == w.t = "R"

IsArcCommand(w) == CodeMatches(w, {2, 3})

\* re.findall(r'(X|Y|Z)([\d.-]+)', line)
axis_findall(line) == SelectSeq(line, IsAxisWord)

\* radius_re.findall(line)
radius_findall(line) == SelectSeq(line, IsRadiusWord)

\* re.findall(r'\bG0*([23])\b', line)[0]
LastDigit(w) == w.code[Len(w.code)]

command_findall(line) == LastDigit(SelectSeq(line, IsArcCommand)[1])

\* re.sub(radius_re, offset_word, line)
radius_sub(offset_word, line) ==
    [i \in 1..Len(line) |-> IF IsRadiusWord(line[i]) THEN offset_word ELSE line[i]]

----------------------------------------------------------------------------
(***************************************************************************)
(* GcodeProcessor.push_line: the reconstruction of the arc's center        *)
(***************************************************************************)
\* lines 111-113
arc_end_point(axes) == point2d(update_from_axes(Origin, axes))

\* distance > 4 * radius
NoIntersection_quadruple(distance, radius) ==
    radius < 0 \/ distance > Sq(4 * radius)

\* distance > 2 * radius, distance the root of `distance`
NoIntersection(distance, radius) == radius < 0 \/ distance > Sq(2 * radius)

\* Point2D.interpolate_to_point at ratio 0.5, in the field (K, D)
interpolate_to_point(self, other, K, D) ==
    Point2D(Surd(self.x + other.x, 0, K, D), Surd(self.y + other.y, 0, K, D))

\* m + h * n / distance, with h / distance = sqrt(K/D) / 2
PlusHTimes(m, n) == Surd(m.a, m.b + n, m.K, m.D)

\* p3_1 with the sign of h in y3_1 as in y3_2
p3_1_same_sign(self_2d, end, midpoint) ==
    Point2D(PlusHTimes(midpoint.x, end.y - self_2d.y),
            PlusHTimes(midpoint.y, end.x - self_2d.x))

\* lines 123, 125, 127
p3_1(self_2d, end, midpoint) ==
    Point2D(PlusHTimes(midpoint.x, end.y - self_2d.y),
            PlusHTimes(midpoint.y, -(end.x - self_2d.x)))

\* lines 124, 126, 128
p3_2(self_2d, end, midpoint) ==
    Point2D(PlusHTimes(midpoint.x, -(end.y - self_2d.y)),
            PlusHTimes(midpoint.y, end.x - self_2d.x))

\* lines 136-141: the angle, less 2*pi when above pi
renormalized(alpha) == IF GreaterThanPi(alpha) THEN MinusTwoPi(alpha) ELSE alpha

\* center with the two directions exchanged
center_swapped(command, c1, c2, a1, a2) ==
    IF command = 3
    THEN (IF AngleLess(a2, a1) THEN c2 ELSE c1)
    ELSE (IF AngleLess(a1, a2) THEN c2 ELSE c1)

\* center with the clockwise test in both branches
center_one_test(command, c1, c2, a1, a2) ==
    IF command = 3
    THEN (IF AngleLess(a2, a1) THEN c2 ELSE c1)
    ELSE (IF AngleLess(a2, a1) THEN c2 ELSE c1)

\* lines 145-152
center(command, c1, c2, a1, a2) ==
    IF command = 3
    THEN (IF AngleLess(a1, a2) THEN c2 ELSE c1)
    ELSE (IF AngleLess(a2, a1) THEN c2 ELSE c1)

\* line 155: the word I<u>J<v>, both rounded to four decimals
offset_word(offset_vector) ==
    [t |-> "IJ", i |-> Round4(offset_vector.u), j |-> Round4(offset_vector.v)]

\* v2 as the floating-point evaluation leaves it
Residual(w2, residue) == IF residue /\ OnBranchCut(w2) THEN Below(w2) ELSE w2

\* the residues the floating-point evaluation of lines 121-134 can leave
Residues(self_2d, end, radius) ==
    IF /\ ~NoIntersection(distance_to_point(self_2d, end), radius)
       /\ distance_to_point(self_2d, end) # 0
       /\ OnBranchCut(vector_to_point(
              WholePoint(self_2d, 4 * Sq(radius) - distance_to_point(self_2d, end),
                         distance_to_point(self_2d, end)),
              p3_2(self_2d, end,
                   interpolate_to_point(self_2d, end,
                       4 * Sq(radius) - distance_to_point(self_2d, end),
                       distance_to_point(self_2d, end)))))
    THEN {FALSE, TRUE}
    ELSE {FALSE}

\* lines 154-155 and the locals of the reconstruction
Reconstructed(start, c1, c2, a1, a2, c) ==
    [raised |-> "none", p3_1 |-> c1, p3_2 |-> c2, a1 |-> a1, a2 |-> a2,
     center |-> c, offset_vector |-> vector_to_point(start, c),
     offset_word |-> offset_word(vector_to_point(start, c))]

\* lines 145-152
Selected(start, c1, c2, a1, a2, command) ==
    Reconstructed(start, c1, c2, a1, a2, center(command, c1, c2, a1, a2))

\* lines 132-141
Angled(start, v, c1, c2, command, residue) ==
    Selected(start, c1, c2,
             renormalized(angle_to_vector(v, vector_to_point(start, c1))),
             renormalized(angle_to_vector(v,
                 Residual(vector_to_point(start, c2), residue))),
             command)

\* lines 122-128
Intersected(self_2d, end, midpoint, K, D, command, residue) ==
    Angled(WholePoint(self_2d, K, D),
           vector_to_point(WholePoint(self_2d, K, D), WholePoint(end, K, D)),
           p3_1(self_2d, end, midpoint), p3_2(self_2d, end, midpoint),
           command, residue)

\* lines 116-121
Checked(self_2d, end, radius, distance, command, residue) ==
    IF NoIntersection(distance, radius)
    THEN [raised |-> "No intersection"]
    ELSE IF 4 * Sq(radius) - distance < 0
    THEN [raised |-> "ValueError"]          \* math.sqrt of a negative number
    ELSE IF distance = 0
    THEN [raised |-> "ZeroDivisionError"]   \* h * 0.0 / 0.0
    ELSE Intersected(self_2d, end,
                     interpolate_to_point(self_2d, end,
                                          4 * Sq(radius) - distance, distance),
                     4 * Sq(radius) - distance, distance, command, residue)

\* lines 116-155 for a start, an end, a radius and a command digit.
\* `residue`: the floating-point evaluation leaves v2 just below the
\* positive x axis when v2 lies exactly on it.
reconstruct(self_2d, end, radius, command, residue) ==
    Checked(self_2d, end, radius, distance_to_point(self_2d, end), command,
            residue)

----------------------------------------------------------------------------
(***************************************************************************)
(* GcodeProcessor.push_line                                                *)
(***************************************************************************)
\* lines 108-157, for a line matched as an arc that has a radius word
Rewritten(position, line, axes, self_2d, end, radius, command, rec) ==
    [raised   |-> rec.raised,
     line     |-> IF rec.raised = "none"
                  THEN radius_sub(rec.offset_word, line) ELSE line,
     position |-> IF rec.raised = "none" /\ axes # <<>>
                  THEN update_from_axes(position, axes) ELSE position,
     locals   |-> [kind |-> "arc", line |-> line, axes |-> axes,
                   rewrite |-> TRUE, radius |-> radius,
                   arc_end_point |-> end, self_2d |-> self_2d,
                   distance |-> distance_to_point(self_2d, end),
                   command |-> command, rec |-> rec]]

Rewrite(position, line, axes, self_2d, end, radius, command, residue) ==
    Rewritten(position, line, axes, self_2d, end, radius, command,
              reconstruct(self_2d, end, radius, command, residue))

\* lines 159-162, for a line that is not rewritten
Pushed(position, line, axes, kind) ==
    [raised   |-> "none",
     line     |-> line,
     position |-> IF axes # <<>>
                  THEN update_from_axes(position, axes) ELSE position,
     locals   |-> [kind |-> kind, line |-> line, axes |-> axes,
                   rewrite |-> FALSE]]

\* push_line with the position updated before the arc is reconstructed
push_line_updates_first(position, line, residue) ==
    IF MatchLinear(line)
    THEN Pushed(position, line, axis_findall(line), "linear")
    ELSE IF MatchArc(line)
    THEN (IF radius_findall(line) # <<>>
          THEN Rewrite(position, line, axis_findall(line),
                       point2d(update_from_axes(position, axis_findall(line))),
                       arc_end_point(axis_findall(line)),
                       Float(radius_findall(line)[1].num),
                       command_findall(line), residue)
          ELSE Pushed(position, line, axis_findall(line), "arc"))
    ELSE Pushed(position, line, <<>>, "other")

\* The call's outcome: the exception raised ("none" if it returns), the
\* line appended to output_lines, the position it leaves, and its locals.
push_line(position, line, residue) ==
    IF MatchLinear(line)
    THEN Pushed(position, line, axis_findall(line), "linear")
    ELSE IF MatchArc(line)
    THEN (IF radius_findall(line) # <<>>
          THEN Rewrite(position, line, axis_findall(line), point2d(position),
                       arc_end_point(axis_findall(line)),
                       Float(radius_findall(line)[1].num),
                       command_findall(line), residue)
          ELSE Pushed(position, line, axis_findall(line), "arc"))
    ELSE Pushed(position, line, <<>>, "other")

\* the residues possible in a call of push_line
PushResidues(position, line) ==
    IF MatchArc(line) /\ ~MatchLinear(line) /\ radius_findall(line) # <<>>
    THEN Residues(point2d(position), arc_end_point(axis_findall(line)),
                  Float(radius_findall(line)[1].num))
    ELSE {FALSE}

\* GcodeProcessor.output: ''.join([line + '\n' for line in output_lines])
Nl == [t |-> "nl"]

RECURSIVE output(_)
output(lines) ==
    IF lines = <<>> THEN <<>>
    ELSE Head(lines) \o <<Nl>> \o output(Tail(lines))

----------------------------------------------------------------------------
(***************************************************************************)
(* The input lines                                                         *)
(***************************************************************************)
G(code) == GWord(code)

X(n) == Word("X", n)

Y(n) == Word("Y", n)

Z(n) == Word("Z", n)

R(n) == Word("R", n)

Lines ==
    { << Ws, G(<<0, 1>>), X(5), Y(5), Ws >>,           \* "  G01 X5 Y5  "
      << G(<<1>>), X(1), Y(2), Z(3) >>,                \* "G1 X1 Y2 Z3"
      << G(<<0>>), X(5) >>,                            \* "G0 X5"
      << G(<<1>>), Y(0), Y(-3) >>,                     \* "G1 Y0 Y-3"
      << G(<<2>>), X(10), Y(0), R(10) >>,              \* "G2 X10 Y0 R10"
      << G(<<2>>), X(10), R(5) >>,                     \* "G2 X10 R5"
      << G(<<2>>), X(10), Y(5), R(5) >>,               \* "G2 X10 Y5 R5"
      << G(<<2>>), X(10), Y(0), R(10), Txt(";"), R(5) >>, \* "G2 X10 Y0 R10 ; R5"
      << G(<<0, 3>>), X(8), Y(-6), R(13) >>,           \* "G03 X8 Y-6 R13"
      << G(<<3>>), X(-6), Y(8), R(5) >>,               \* "G3 X-6 Y8 R5"
      << G(<<3>>), X(10), Y(0), R(4) >>,               \* "G3 X10 Y0 R4"
      << G(<<2>>), R(5) >>,                            \* "G2 R5"
      << G(<<3>>), X(3), Y(4), Txt("I0"), Txt("J2") >>, \* "G3 X3 Y4 I0 J2"
      << Txt("N10"), G(<<1>>), X(7) >>,                \* "N10 G1 X7"
      << G(<<1, 0>>), X(7) >>,                         \* "G10 X7"
      << Ws >> }                                       \* " "

----------------------------------------------------------------------------
(***************************************************************************)
(* Tool.process_file: one GcodeProcessor fed the lines of a file           *)
(***************************************************************************)
VARIABLES
    position,       \* GcodeProcessor.position
    output_lines,   \* GcodeProcessor.output_lines
    input,          \* the lines of the file read so far
    pc,             \* "running", "failed" (an exception left process_file), "done"
    raised,         \* the exception that left process_file, or "none"
    stdout,         \* the text printed
    locals          \* the locals of the last call of push_line

vars == <<position, output_lines, input, pc, raised, stdout, locals>>

Init ==
    /\ position = Origin
    /\ output_lines = <<>>
    /\ input = <<>>
    /\ pc = "running"
    /\ raised = "none"
    /\ stdout = <<>>
    /\ locals = [kind |-> "none"]

\* process_line with the append inside `if axes:`
process_line_appends_moves(line) ==
    /\ pc = "running"
    /\ \E residue \in PushResidues(position, strip(line)) :
         \E call \in {push_line(position, strip(line), residue)} :
             /\ input' = Append(input, line)
             /\ locals' = call.locals
             /\ position' = call.position
             /\ IF call.raised = "none"
                THEN /\ output_lines' = IF call.locals.axes # <<>>
                                        THEN Append(output_lines, call.line)
                                        ELSE output_lines
                     /\ UNCHANGED <<pc, raised>>
                ELSE /\ pc' = "failed"
                     /\ raised' = call.raised
                     /\ UNCHANGED output_lines
    /\ UNCHANGED stdout

\* one iteration of `for line in f: processor.process_line(line)`
process_line(line) ==
    /\ pc = "running"
    /\ \E residue \in PushResidues(position, strip(line)) :
         \E call \in {push_line(position, strip(line), residue)} :
             /\ input' = Append(input, line)
             /\ locals' = call.locals
             /\ position' = call.position
             /\ IF call.raised = "none"
                THEN /\ output_lines' = Append(output_lines, call.line)
                     /\ UNCHANGED <<pc, raised>>
                ELSE /\ pc' = "failed"
                     /\ raised' = call.raised
                     /\ UNCHANGED output_lines
    /\ UNCHANGED stdout

\* the end of the file: `print processor.output()`
print_output ==
    /\ pc = "running"
    /\ pc' = "done"
    /\ stdout' = output(output_lines) \o <<Nl>>
    /\ UNCHANGED <<position, output_lines, input, raised, locals>>

Next ==
    \/ \E line \in Lines : Len(input) < MaxLines /\ process_line(line)
    \/ print_output

Spec == Init /\ [][Next]_vars

----------------------------------------------------------------------------
(***************************************************************************)
(* One arc line with a radius, pushed at any position of a grid: the arc   *)
(* reconstruction applied to every start, end, radius and direction.       *)
(***************************************************************************)
Range == (-Coord)..Coord

ArcLines ==
    { << G(<<c>>), X(x), Y(y), R(r) >> :
        c \in {2, 3}, x \in Range, y \in Range, r \in (-1)..MaxRadius }

InitArc ==
    /\ position \in {Point3D(x, y, 0) : x \in Range, y \in Range}
    /\ output_lines = <<>>
    /\ input = <<>>
    /\ pc = "running"
    /\ raised = "none"
    /\ stdout = <<>>
    /\ locals = [kind |-> "none"]

NextArc ==
    \/ \E line \in ArcLines : input = <<>> /\ process_line(line)
    \/ print_output

SpecArc == InitArc /\ [][NextArc]_vars

----------------------------------------------------------------------------
(***************************************************************************)
(* Properties                                                              *)
(***************************************************************************)
\* the last call of push_line rewrote an arc: it computed a center
Rewrote == locals.kind = "arc" /\ locals.rewrite /\ locals.rec.raised = "none"

\* the chord start -> end and the vector start -> p, in the field of the
\* last reconstruction
LocalK == 4 * Sq(locals.radius) - locals.distance

LocalStart == WholePoint(locals.self_2d, LocalK, locals.distance)

Chord == vector_to_point(LocalStart,
                         WholePoint(locals.arc_end_point, LocalK, locals.distance))

\* 1 when p is on the left of the directed chord, -1 on the right, 0 on it
Side(p) == Cross(Chord, vector_to_point(LocalStart, p))

\* two points are the same point of the plane
SamePoint(p, q) ==
    SgnSurd(SurdSub(p.x, q.x)) = 0 /\ SgnSurd(SurdSub(p.y, q.y)) = 0

\* C1: for 0 < distance < 2*radius the center returned for a counterclockwise
\* arc (G3) is the candidate on the left of the directed chord, p3_2, and the
\* center returned for a clockwise arc (G2) is the candidate on the right,
\* p3_1, whatever the bearing of the chord.
C1_SideFollowsSense ==
    (Rewrote /\ 0 < locals.distance /\ locals.distance < Sq(2 * locals.radius))
    => IF locals.command = 3
       THEN SamePoint(locals.rec.center, locals.rec.p3_2)
            /\ Side(locals.rec.center) = 1
       ELSE SamePoint(locals.rec.center, locals.rec.p3_1)
            /\ Side(locals.rec.center) = -1

\* the value of the last word of `axis` among the words ws, or dflt
RECURSIVE NamedValue(_, _, _)
NamedValue(ws, axis, dflt) ==
    IF ws = <<>> THEN dflt
    ELSE IF ws[Len(ws)].t = axis THEN Float(ws[Len(ws)].num)
    ELSE NamedValue(SubSeq(ws, 1, Len(ws) - 1), axis, dflt)

\* C2: the end point of a radius arc is the current position with only the
\* axes named on the line overwritten.
C2_EndKeepsUnnamedAxes ==
    (locals.kind = "arc" /\ locals.rewrite)
    => /\ locals.arc_end_point.x = NamedValue(locals.line, "X", locals.self_2d.x)
       /\ locals.arc_end_point.y = NamedValue(locals.line, "Y", locals.self_2d.y)

\* |w|^2 = n for a vector w of surds: 4*D*(|w|^2 - n) = X + Y*sqrt(K/D) with
\* X = 0 and Y*sqrt(K/D) = 0
NormSqIs(w, n) ==
    /\ (Sq(w.u.a) + Sq(w.v.a)) * w.u.D + (Sq(w.u.b) + Sq(w.v.b)) * w.u.K
         = 4 * n * w.u.D
    /\ w.u.K = 0 \/ w.u.a * w.u.b + w.v.a * w.v.b = 0

\* the returned center is at distance radius from the start and from the end
CenterOnBothCircles ==
    /\ NormSqIs(vector_to_point(LocalStart, locals.rec.center), Sq(locals.radius))
    /\ NormSqIs(vector_to_point(
                  WholePoint(locals.arc_end_point, LocalK, locals.distance),
                  locals.rec.center), Sq(locals.radius))

\* C3 as stated: for every start, end and radius with distance <= 2*radius,
\* the cases distance = 2*radius and distance = 0 included, a center is
\* returned and it is at distance radius from the start and from the end.
C3_CenterAtRadius_Original ==
    (locals.kind = "arc" /\ locals.rewrite /\ locals.radius >= 0
       /\ locals.distance <= Sq(2 * locals.radius))
    => (locals.rec.raised = "none" /\ CenterOnBothCircles)

\* C3 amended: for every start, end and radius with 0 < distance <= 2*radius
\* a center is returned and it is at distance radius from the start and from
\* the end.
C3_CenterAtRadius ==
    (locals.kind = "arc" /\ locals.rewrite /\ locals.radius >= 0
       /\ 0 < locals.distance /\ locals.distance <= Sq(2 * locals.radius))
    => (locals.rec.raised = "none" /\ CenterOnBothCircles)

C3_Witness ==
    /\ Rewrote
    /\ 0 < locals.distance /\ locals.distance < Sq(2 * locals.radius)
    /\ locals.self_2d.x # locals.arc_end_point.x
    /\ locals.self_2d.y # locals.arc_end_point.y

Last(q) == q[Len(q)]

Front(q) == SubSeq(q, 1, Len(q) - 1)

Moves(line) == MatchLinear(line) \/ MatchArc(line)

HasRadius(line) == \E k \in 1..Len(line) : line[k].t = "R"

\* the value of the first radius word of a line that has one
FirstRadius(line) ==
    Float(line[CHOOSE k \in 1..Len(line) :
                 line[k].t = "R" /\ \A j \in 1..(k - 1) : line[j].t # "R"].num)

\* the radius r is too small to reach (ex, ey) from pos
TooFarTo(pos, ex, ey, r) ==
    r < 0 \/ Sq(ex - pos.x) + Sq(ey - pos.y) > Sq(2 * r)

\* the radius of the line is too small to reach its end point from pos, the
\* end point being pos, or the origin, with the named axes overwritten
TooFar(pos, line) ==
    \/ TooFarTo(pos, NamedValue(line, "X", pos.x), NamedValue(line, "Y", pos.y),
                FirstRadius(line))
    \/ TooFarTo(pos, NamedValue(line, "X", 0), NamedValue(line, "Y", 0),
                FirstRadius(line))

\* C4: when a G2/G3 line with a radius word has distance(start, end) >
\* 2*radius, the call fails with "No intersection", no line is processed
\* after a failure, and nothing is printed: not the lines before it either.
C4_NoIntersectionAborts ==
    [][ /\ pc # "failed"
        /\ (input' # input /\ MatchArc(strip(Last(input')))
              /\ HasRadius(strip(Last(input')))
              /\ TooFar(position, strip(Last(input'))))
           => /\ pc' = "failed"
              /\ raised' = "No intersection"
              /\ output_lines' = output_lines
              /\ stdout' = <<>> ]_vars

C4_Witness ==
    /\ pc = "failed"
    /\ raised = "No intersection"
    /\ Len(output_lines) = 2
    /\ stdout = <<>>

\* the position after the lines: per axis the value of the last word for it
\* on the most recent G0/G1/G2/G3 line that has one, or 0
RECURSIVE LastNamed(_, _)
LastNamed(lines, axis) ==
    IF lines = <<>> THEN 0
    ELSE IF Moves(strip(Last(lines)))
            /\ \E k \in 1..Len(Last(lines)) : Last(lines)[k].t = axis
    THEN NamedValue(Last(lines), axis, 0)
    ELSE LastNamed(Front(lines), axis)

Tracked(lines) ==
    [x |-> LastNamed(lines, "X"), y |-> LastNamed(lines, "Y"),
     z |-> LastNamed(lines, "Z")]

\* pos with the axes named on a G0/G1/G2/G3 line overwritten
Applied(pos, line) ==
    IF Moves(line)
    THEN [x |-> NamedValue(line, "X", pos.x), y |-> NamedValue(line, "Y", pos.y),
          z |-> NamedValue(line, "Z", pos.z)]
    ELSE pos

\* C5: the start of the arc on a line is the position left by the lines
\* before it, and the axes of a line are applied to the position after the
\* call has decided its rewrite, rewrite or not.
C5_StartIsPreUpdatePosition ==
    [][ input' # input
        => /\ (locals'.kind = "arc" /\ locals'.rewrite)
              => /\ locals'.self_2d = [x |-> position.x, y |-> position.y]
                 /\ locals'.self_2d = [x |-> Tracked(input).x,
                                       y |-> Tracked(input).y]
           /\ pc' # "failed"
              => position' = Applied(position, strip(Last(input'))) ]_vars

C5_Witness ==
    /\ Len(input) = 2
    /\ Rewrote
    /\ locals.self_2d = [x |-> 5, y |-> 5]
    /\ locals.arc_end_point = [x |-> 10, y |-> 5]
    /\ position = [x |-> 10, y |-> 5, z |-> 0]

\* C6: a rewritten line differs from the trimmed input line in the span of
\* the first radius word only.
C6_OnlyRadiusSpanReplaced ==
    \A i \in 1..Len(output_lines) :
        /\ Len(output_lines[i]) = Len(strip(input[i]))
        /\ \A k \in 1..Len(output_lines[i]) :
              output_lines[i][k] # strip(input[i])[k]
              => /\ MatchArc(strip(input[i]))
                 /\ strip(input[i])[k].t = "R"
                 /\ \A j \in 1..(k - 1) : strip(input[i])[j].t # "R"

\* the words of `out` are those of `in`, radius words possibly replaced by
\* offset words
Derived(out, in) ==
    /\ Len(out) = Len(in)
    /\ \A k \in 1..Len(in) :
          IF in[k].t = "R"
          THEN out[k] = in[k] \/ out[k].t = "IJ"
          ELSE out[k] = in[k]

\* the white space of a line that is at neither end
Trimmed(line) ==
    SubSeq(line,
           CHOOSE a \in 1..(Len(line) + 1) :
               /\ \A k \in 1..(a - 1) : line[k].t = "ws"
               /\ a <= Len(line) => line[a].t # "ws",
           CHOOSE b \in 0..Len(line) :
               /\ \A k \in (b + 1)..Len(line) : line[k].t = "ws"
               /\ b >= 1 => line[b].t # "ws")

\* C7: after n lines processed without a failure the output holds n lines,
\* output line i being the form of input line i; the text of output() has
\* one newline for each.
C7_OneOutputLinePerInputLine ==
    pc # "failed"
    => /\ Len(output_lines) = Len(input)
       /\ \A i \in 1..Len(input) : Derived(output_lines[i], Trimmed(input[i]))
       /\ Cardinality({k \in 1..Len(output(output_lines)) :
                          output(output_lines)[k] = Nl}) = Len(input)
       /\ pc = "done" => stdout = output(output_lines) \o <<Nl>>

C7_Witness ==
    /\ pc = "done"
    /\ Len(input) = 3
    /\ input[1] # Trimmed(input[1])
    /\ \E k \in 1..Len(output_lines[2]) : output_lines[2][k].t = "IJ"
    /\ input[3] # input[1]

ExampleLine == << G(<<2>>), X(10), Y(0), R(10) >>

\* C8 as stated: from (0,0,0) the line G2 X10 Y0 R10 is rewritten with the
\* offset (I, J) = (5, 0): the center is (5, 0).
C8_ExampleOffset_Original ==
    (input = <<ExampleLine>> /\ pc # "failed")
    => /\ output_lines[1][4] = [t |-> "IJ", i |-> 50000, j |-> 0]
       /\ SamePoint(locals.rec.center, WholePoint([x |-> 5, y |-> 0], 300, 100))

\* C8 amended: from (0,0,0) the line G2 X10 Y0 R10 is rewritten with the
\* offset (I, J) = (5, -8.6603): the center is (5, -5*sqrt(3)), the
\* candidate p3_1 at distance 10 from (0,0) and from (10,0).
C8_ExampleOffset ==
    (input = <<ExampleLine>> /\ pc # "failed")
    => /\ output_lines
            = << << G(<<2>>), X(10), Y(0),
                    [t |-> "IJ", i |-> 50000, j |-> -86603] >> >>
       /\ SamePoint(locals.rec.center,
                    [x |-> Surd(10, 0, 300, 100), y |-> Surd(0, -10, 300, 100)])
       /\ CenterOnBothCircles

C8_Witness ==
    /\ input = <<ExampleLine>>
    /\ Rewrote
    /\ Len(output_lines) = 1

\* p + q for two surds of the same field
SurdAdd(p, q) == Surd(p.a + q.a, p.b + q.b, p.K, p.D)

\* q is the mirror image of p across the chord: q - p is perpendicular to
\* the chord and the midpoint of p and q is on the line of the chord
Mirrored(p, q) ==
    /\ Dot(Chord, vector_to_point(p, q)) = 0
    /\ Cross(Chord,
             [u |-> SurdAdd(SurdSub(p.x, LocalStart.x), SurdSub(q.x, LocalStart.x)),
              v |-> SurdAdd(SurdSub(p.y, LocalStart.y), SurdSub(q.y, LocalStart.y))])
       = 0

\* the centers returned for G2 and for G3, same start, end and radius
CenterFor(command, residue) ==
    reconstruct(locals.self_2d, locals.arc_end_point, locals.radius, command,
                residue).center

\* C9: for 0 < distance <= 2*radius the centers returned for the two
\* directions are the same point exactly when distance = 2*radius, and are
\* otherwise the two candidates, distinct and mirrored across the chord.
C9_DirectionsMirror ==
    Rewrote
    => \A residue \in Residues(locals.self_2d, locals.arc_end_point, locals.radius) :
          /\ SamePoint(CenterFor(2, residue), CenterFor(3, residue))
             <=> locals.distance = Sq(2 * locals.radius)
          /\ locals.distance # Sq(2 * locals.radius)
             => /\ Mirrored(CenterFor(2, residue), CenterFor(3, residue))
                /\ \/ /\ SamePoint(CenterFor(2, residue), locals.rec.p3_1)
                      /\ SamePoint(CenterFor(3, residue), locals.rec.p3_2)
                   \/ /\ SamePoint(CenterFor(2, residue), locals.rec.p3_2)
                      /\ SamePoint(CenterFor(3, residue), locals.rec.p3_1)
          /\ \/ SamePoint(locals.rec.center, CenterFor(2, residue))
             \/ SamePoint(locals.rec.center, CenterFor(3, residue))

C9_Witness ==
    /\ Rewrote
    /\ locals.distance < Sq(2 * locals.radius)
    /\ locals.command = 3
    /\ ~SamePoint(locals.rec.center, CenterFor(2, FALSE))

\* C10: after lines processed without a failure each coordinate of the
\* position is the value of the most recent G0/G1/G2/G3 line that named the
\* axis, or 0; a failing line leaves the position as it was.
C10_PositionIsLastNamed ==
    IF pc = "failed" THEN position = Tracked(Front(input))
    ELSE position = Tracked(input)

C10_Witness ==
    /\ Len(input) = 3
    /\ Tracked(SubSeq(input, 1, 1)) = [x |-> 1, y |-> 2, z |-> 3]
    /\ input[2] = << G(<<0>>), X(5) >>
    /\ ~Moves(strip(input[3])) /\ \E k \in 1..Len(input[3]) : input[3][k].t = "X"
    /\ position = [x |-> 5, y |-> 2, z |-> 3]

=============================================================================
